---- MODULE Spec2Model ----
(***************************************************************************)
(* The WebSocketManager of the front end (src/unnamed/part_003): one       *)
(* manager object, the browser WebSocket objects it creates, its timers    *)
(* and its three listener collections.                                     *)
(*                                                                         *)
(* Every handler of the class is an operator on a record m of the          *)
(* manager's fields (plus the ready states of the sockets, which the       *)
(* handlers change through ws.close()); an action is one browser task:     *)
(* it applies the whole handler, calls included, to the current state.     *)
(* Time is counted in units of 1000 ms and passes in steps of TimeStep.    *)
(***************************************************************************)
EXTENDS Integers, Sequences, FiniteSets, Bags, TLC

\* ------------------------------------------------------------ bounds
MaxSock == 2            \* WebSocket objects alive at the same time
MaxLeaked == 1          \* pending timeouts that no field refers to
ExtraSock == 2          \* sockets of SpecExhaust beyond maxReconnectAttempts

MaxServers == 2         \* servers in the collection of the page
MaxUpdates == 2         \* entries of an array payload

MaxLibSock == 3          \* WebSocket objects of the manager of lib/websocket.ts
MaxClosures == 4        \* listeners one hook instance creates (calls of its connect())

\* ------------------------------------------------- program constants
maxReconnectAttempts == 10      \* part_003:13
PingPeriod == 15                \* part_003:133  setInterval(..., 15000)
PongDeadline == 20              \* part_003:118  now - lastPongTime > 20000
RetryDelay == 1                 \* part_003:187  setTimeout(..., 1000)
BaseDelayMs == 1000             \* part_003:164  1000 * Math.pow(1.5, ...)
MaxDelayMs == 30000             \* part_003:164  Math.min(..., 30000)
libMaxReconnectAttempts == 5    \* lib/websocket.ts:22

\* Time passes in steps that divide both periods of the heartbeat.
TimeStep == PongDeadline - PingPeriod

NoSock == 0                     \* this.ws === null

\* WebSocket.readyState; "NONE" is a socket not constructed yet, or one that is
\* CLOSED and that the manager no longer holds: it fires no event any more.
ReadyStates == {"NONE", "CONNECTING", "OPEN", "CLOSING", "CLOSED"}

\* CloseEvent.code of a close without error: normal closure, or another code
\* (the handlers compare the code with 1000 only).
CloseCodes == {1000, 1005}

\* event.data of a MessageEvent: the pong token, a JSON text, a non-JSON text.
Payloads == {"json", "json2"}
Frames == {"pong", "json", "garbage"}

\* The listeners that can be registered.  A listener of Throwing raises
\* whenever it is called.
DataListeners == {1}
LibListeners == {1, 2}
StateListeners == {1}
ErrorListeners == {1, 2}
Throwing == {2}

\* The data and state listeners and the frames of SpecFanout.
FanListeners == {1, 2, 3}
FanFrames == Payloads \cup {"pong", "garbage"}

VARIABLES
    ws,                 \* this.ws: a socket, or NoSock
    rs,                 \* rs[s]: readyState of socket s
    reconnectAttempts,  \* this.reconnectAttempts
    isReconnecting,     \* this.isReconnecting
    autoReconnect,      \* this.autoReconnect
    pingInterval,       \* this.pingInterval: [on, rem]; rem = units to the next tick
    retryTimeout,       \* this.retryTimeout: the handle and the timer it names
    leaked,             \* pending timeouts no field refers to any more (a bag)
    sincePong,          \* Date.now() - this.lastPongTime, saturated above PongDeadline
    callbacks,          \* this.callbacks, in insertion order
    errorCallbacks,     \* this.errorCallbacks, in insertion order
    stateCallbacks,     \* this.stateCallbacks, in insertion order
    lastState,          \* the value most recently passed to updateState
    out,                \* what the last task passed to listeners and to send()
    closeRun,           \* history: close() calls made in a row just now (up to 2)
    hb,                 \* history: the last heartbeat timeout, until an open or close()
    failures,           \* history: sockets that failed before they opened, in a row,
                        \* while autoReconnect; an open event or close() ends the row
    servers,            \* ServersPage: the state `servers` (empty until the page loads)
    applied,            \* history: the last update the page was passed, and the
                        \* collection it was applied to
    attempts,           \* SpecDelay: two values of reconnectAttempts after the increment
    delays,             \* SpecDelay: the delay computed for each, <<>> before
    hook,               \* SpecHook: one useWebSocket instance (its refs and state)
    lib                 \* SpecLib: the WebSocketManager of lib/websocket.ts

mgrVars == <<ws, reconnectAttempts, isReconnecting, autoReconnect, pingInterval,
             retryTimeout, leaked, sincePong, callbacks, errorCallbacks,
             stateCallbacks>>
vars == <<ws, rs, reconnectAttempts, isReconnecting, autoReconnect, pingInterval,
          retryTimeout, leaked, sincePong, callbacks, errorCallbacks,
          stateCallbacks, lastState, out, closeRun, hb, failures, servers, applied,
          attempts, delays, hook, lib>>
pageVars == <<servers, applied>>
policyVars == <<attempts, delays>>
hookVars == <<hook>>
libVars == <<lib>>

Min(S) == CHOOSE x \in S : \A y \in S : x <= y

\* A Set of listeners, in insertion order: membership and Set.delete.
Has(cbs, l) == \E i \in 1..Len(cbs) : cbs[i] = l
With(cbs, l) == IF Has(cbs, l) THEN cbs ELSE Append(cbs, l)
\* Set.clear in the place of Set.delete.
WithoutAny(cbs, l) == <<>>
Without(cbs, l) == SelectSeq(cbs, LAMBDA x : x # l)
MinOf(a, b) == IF a <= b THEN a ELSE b

NoPing == [on |-> FALSE, rem |-> 0]
NoHb == [on |-> FALSE, sock |-> 0, expect |-> 0, auto |-> FALSE]
NullTimer == [st |-> "null", kind |-> "none", rem |-> 0]

\* The manager as one record; exc is set while an exception propagates.
M == [ws |-> ws, rs |-> rs, reconnectAttempts |-> reconnectAttempts,
      isReconnecting |-> isReconnecting, autoReconnect |-> autoReconnect,
      pingInterval |-> pingInterval, retryTimeout |-> retryTimeout,
      leaked |-> leaked, sincePong |-> sincePong, callbacks |-> callbacks,
      errorCallbacks |-> errorCallbacks, stateCallbacks |-> stateCallbacks,
      lastState |-> lastState, out |-> <<>>, exc |-> FALSE]

\* The task ends: the fields take the values the handler left.  A CLOSED
\* socket the manager does not hold is forgotten.  lastPongTime is read by the
\* interval callback only, and handleOpen sets it before it starts the
\* interval: while no interval runs its age is kept saturated.
Commit(m) ==
    /\ BagCardinality(m.leaked) <= MaxLeaked
    /\ UNCHANGED pageVars
    /\ UNCHANGED policyVars
    /\ UNCHANGED hookVars
    /\ UNCHANGED libVars
    /\ ws' = m.ws
    /\ rs' = [s \in DOMAIN m.rs |->
                IF m.rs[s] = "CLOSED" /\ s # m.ws THEN "NONE" ELSE m.rs[s]]
    /\ reconnectAttempts' = m.reconnectAttempts
    /\ isReconnecting' = m.isReconnecting
    /\ autoReconnect' = m.autoReconnect
    /\ pingInterval' = m.pingInterval
    /\ retryTimeout' = m.retryTimeout
    /\ leaked' = m.leaked
    /\ sincePong' = IF m.pingInterval.on THEN m.sincePong ELSE PongDeadline + TimeStep
    /\ callbacks' = m.callbacks
    /\ errorCallbacks' = m.errorCallbacks
    /\ stateCallbacks' = m.stateCallbacks
    /\ lastState' = m.lastState
    /\ out' = m.out

\* ------------------------------------------------------------ helpers

Emit(m, ch, v, code, to) ==
    [m EXCEPT !.out = Append(@, [ch |-> ch, v |-> v, code |-> code, to |-> to])]

\* The delay is a multiple of 1/Scale ms for every n up to maxReconnectAttempts
\* (1.5^(n-1) = 3^(n-1) / 2^(n-1), exact in a double).
Scale == 2^(maxReconnectAttempts - 1)

\* The delay with no upper limit.
delayUncapped(n) == BaseDelayMs * 3^(n - 1) * (Scale \div 2^(n - 1))

\* const delay = Math.min(1000 * Math.pow(1.5, n - 1), 30000), in 1/Scale ms.
delayScaled(n) ==
    MinOf(BaseDelayMs * 3^(n - 1) * (Scale \div 2^(n - 1)), MaxDelayMs * Scale)

\* setTimeout(..., delay) truncates the delay to whole ms.
reconnectDelayMs(n) == delayScaled(n) \div Scale

\* A delay in ms as a number of time steps, rounded up.
Steps(ms) == (ms + 1000 * TimeStep - 1) \div (1000 * TimeStep)

\* WebSocket.close() of the browser: the socket starts closing.
sockClose(m, s) ==
    IF m.rs[s] \in {"CONNECTING", "OPEN"}
    THEN [m EXCEPT !.rs[s] = "CLOSING"]
    ELSE m

\* ws.send(data) on the socket the manager holds.
send(m, data) == Emit(m, "send", data, 0, {m.ws})

\* this.retryTimeout = setTimeout(..., delay): a timer the field named before
\* and that is still pending stays pending, unreferenced.
setRetryTimeout(m, kind, delay) ==
    LET old == m.retryTimeout
        lk == IF old.st = "pending"
              THEN m.leaked (+) SetToBag({[kind |-> old.kind, rem |-> old.rem]})
              ELSE m.leaked
    IN [m EXCEPT !.leaked = lk,
                 !.retryTimeout = [st |-> "pending", kind |-> kind, rem |-> delay]]

\* cbs.forEach(cb => cb(x)) with no try/catch: the listeners called, up to
\* and including the first one that raises.
forEachUncaught(cbs) ==
    LET bad == {i \in 1..Len(cbs) : cbs[i] \in Throwing}
        upto == IF bad = {} THEN Len(cbs) ELSE Min(bad)
    IN {cbs[i] : i \in 1..upto}

\* A guarded loop that gives up at the first listener that raises.
forEachAbandoned(cbs) == forEachUncaught(cbs)

\* cbs.forEach(cb => { try { cb(x) } catch { ... } }): every listener is
\* called, one that raises is logged and the loop goes on.
forEachCaught(cbs) == {cbs[i] : i \in 1..Len(cbs)}

updateState(m, state) ==
    [Emit(m, "state", state, 0, forEachCaught(m.stateCallbacks))
        EXCEPT !.lastState = state]

\* notifyCallbacks that runs twice for one frame.
notifyCallbacksTwice(m, data) ==
    Emit(Emit(m, "data", data, 0, forEachCaught(m.callbacks)),
         "data", data, 0, forEachCaught(m.callbacks))

notifyCallbacks(m, data) == Emit(m, "data", data, 0, forEachCaught(m.callbacks))

stopPing(m) == [m EXCEPT !.pingInterval = NoPing]

startPing(m) == [stopPing(m) EXCEPT !.pingInterval = [on |-> TRUE, rem |-> PingPeriod]]

clearRetryTimeout(m) ==
    IF m.retryTimeout.st # "null" THEN [m EXCEPT !.retryTimeout = NullTimer] ELSE m

RECURSIVE handleError(_, _), attemptReconnect(_)

\* errorCallbacks.forEach(cb => cb(error)) has no try/catch: the first listener
\* that raises ends handleError there.
handleError(m, err) ==
    LET cbs == m.errorCallbacks
        bad == {i \in 1..Len(cbs) : cbs[i] \in Throwing}
        m1 == Emit(m, "error", err.reason, err.code, forEachUncaught(cbs))
    IN IF bad # {}
       THEN [m1 EXCEPT !.exc = TRUE]
       ELSE LET m2 == updateState(m1, "ERROR")
            IN IF err.code = 1006 /\ m2.autoReconnect
               THEN attemptReconnect(m2)
               ELSE m2

attemptReconnect(m) ==
    IF m.isReconnecting \/ ~m.autoReconnect THEN m
    ELSE IF m.reconnectAttempts < maxReconnectAttempts
    THEN LET n == m.reconnectAttempts + 1
             m1 == [m EXCEPT !.isReconnecting = TRUE, !.reconnectAttempts = n]
             m2 == updateState(m1, "RECONNECTING")
         IN setRetryTimeout(m2, "connect", Steps(reconnectDelayMs(n)))
    ELSE LET m1 == handleError(m, [code |-> 1000,
                                   reason |-> "Max reconnection attempts reached"])
         IN IF m1.exc THEN m1 ELSE [m1 EXCEPT !.autoReconnect = FALSE]

FreeSock(m) == {s \in DOMAIN m.rs : m.rs[s] = "NONE"}

\* connect() returns at once when reconnecting or when the held socket is OPEN.
connectReturns(m) ==
    m.isReconnecting \/ (m.ws # NoSock /\ m.rs[m.ws] = "OPEN")

connect(m) ==
    IF connectReturns(m) THEN m
    ELSE LET s == Min(FreeSock(m))
             m1 == [m EXCEPT !.rs[s] = "CONNECTING", !.ws = s]
         IN updateState(m1, "CONNECTING")

handleOpen(m) ==
    LET m1 == [m EXCEPT !.isReconnecting = FALSE, !.reconnectAttempts = 0,
                        !.sincePong = 0]
        m2 == updateState(startPing(m1), "OPEN")
    IN IF m2.ws # NoSock /\ m2.rs[m2.ws] = "OPEN"
       THEN send(m2, "get_initial_status")
       ELSE m2

handleClose(m, code) ==
    LET m1 == updateState(clearRetryTimeout(stopPing(m)), "CLOSED")
    IN IF m1.autoReconnect /\ ~m1.isReconnecting /\ code # 1000
       THEN attemptReconnect(m1)
       ELSE m1

retryHandler(m) ==
    LET m1 == clearRetryTimeout(m)
    IN [m1 EXCEPT !.retryTimeout = [st |-> "pending", kind |-> "initial",
                                    rem |-> Steps(1000 * RetryDelay)]]

\* handleMessage that tries JSON.parse before it looks for the pong token.
handleMessageParseFirst(m, data) ==
    IF data \in Payloads THEN notifyCallbacks(m, data)
    ELSE LET m1 == handleError(m, [code |-> 1007, reason |-> "Invalid message format"])
         IN IF m1.exc THEN m1 ELSE retryHandler(m1)

handleMessage(m, data) ==
    IF data = "pong" THEN [m EXCEPT !.sincePong = 0]
    ELSE IF data \in Payloads THEN notifyCallbacks(m, data)
    ELSE LET m1 == handleError(m, [code |-> 1007, reason |-> "Invalid message format"])
         IN IF m1.exc THEN m1 ELSE retryHandler(m1)

reconnect(m) ==
    LET m1 == IF m.ws # NoSock
              THEN [sockClose(m, m.ws) EXCEPT !.ws = NoSock]
              ELSE m
    IN attemptReconnect(m1)

\* The callback of the heartbeat interval.
pingTick(m) ==
    IF m.ws # NoSock /\ m.rs[m.ws] = "OPEN"
    THEN IF m.sincePong > PongDeadline
         THEN reconnect(m)
         ELSE send(m, "ping")
    ELSE reconnect(m)

\* The callback of retryHandler without the test of readyState.
retryInitialUnguarded(m) == send(m, "get_initial_status")

\* The callback of the timeout of retryHandler.
retryInitial(m) ==
    IF m.ws # NoSock /\ m.rs[m.ws] = "OPEN"
    THEN send(m, "get_initial_status")
    ELSE m

timerCallback(m, kind) ==
    IF kind = "connect" THEN connect(m) ELSE retryInitial(m)

\* close() that closes the socket and keeps the reference.
closeKeepsSocket(m) ==
    LET m1 == clearRetryTimeout(stopPing(
                 [m EXCEPT !.autoReconnect = FALSE, !.isReconnecting = FALSE]))
    IN IF m1.ws # NoSock THEN sockClose(m1, m1.ws) ELSE m1

\* close() that also sets reconnectAttempts to 0.
closeResetsAttempts(m) ==
    LET m1 == clearRetryTimeout(stopPing(
                 [m EXCEPT !.autoReconnect = FALSE, !.isReconnecting = FALSE,
                           !.reconnectAttempts = 0]))
    IN IF m1.ws # NoSock
       THEN [sockClose(m1, m1.ws) EXCEPT !.ws = NoSock]
       ELSE m1

close(m) ==
    LET m1 == clearRetryTimeout(stopPing(
                 [m EXCEPT !.autoReconnect = FALSE, !.isReconnecting = FALSE]))
    IN IF m1.ws # NoSock
       THEN [sockClose(m1, m1.ws) EXCEPT !.ws = NoSock]
       ELSE m1

getState(m) == IF m.ws = NoSock THEN "CLOSED" ELSE m.rs[m.ws]

\* An exception that leaves a handler is reported by the browser and dropped.
Caught(m) == [m EXCEPT !.exc = FALSE]

\* ------------------------------------------------------------ ServersPage

\* OPCUAServer: id, the two fields an update overwrites, and one other field.
ServerIds == 1..MaxServers
UnknownId == 99
Statuses == {"running", "stopped"}
Stamps == {"t0", "t1"}
Names == {"plc"}
Servers == [id : ServerIds, status : Statuses, last_started : Stamps, name : Names]
Collections ==
    {c \in UNION {[1..n -> Servers] : n \in 0..MaxServers} :
        \A i, j \in DOMAIN c : c[i].id = c[j].id => i = j}

\* ServerStatusUpdate: data is one ServerStatusData or an array of them.
StatusData == [id : ServerIds \cup {UnknownId}, status : Statuses, last_started : Stamps]
Updates ==
    [type : {"initial_status", "server_status"}, isArray : {FALSE}, data : [1..1 -> StatusData]]
    \cup [type : {"initial_status", "server_status"}, isArray : {TRUE},
          data : UNION {[1..n -> StatusData] : n \in 0..MaxUpdates}]

\* updates.find(u => u.id === id): the index of the first match, 0 for undefined.
find(updates, id) ==
    LET hits == {i \in 1..Len(updates) : updates[i].id = id}
    IN IF hits = {} THEN 0 ELSE Min(hits)

\* { ...server, status: update.status, last_started: update.last_started }
overwrite(server, update) ==
    [server EXCEPT !.status = update.status, !.last_started = update.last_started]

\* The updater of the server_status branch reads update.id of an undefined
\* update (data is an empty array) for the first server it maps.
throws(prev, data) ==
    data.type = "server_status" /\ Len(data.data) = 0 /\ Len(prev) > 0

\* handleWebSocketMessage that swaps status of a matching server instead of
\* overwriting it.
handleWebSocketMessageToggle(prev, data) ==
    [i \in DOMAIN prev |->
        IF find(data.data, prev[i].id) # 0
        THEN [prev[i] EXCEPT !.status = IF @ = "running" THEN "stopped" ELSE "running"]
        ELSE prev[i]]

\* handleWebSocketMessage that appends the entries that match no server.
handleWebSocketMessageUpsert(prev, data) ==
    LET new == SelectSeq(data.data, LAMBDA u : \A i \in DOMAIN prev : prev[i].id # u.id)
    IN prev \o [k \in DOMAIN new |->
                  [id |-> new[k].id, status |-> new[k].status,
                   last_started |-> new[k].last_started, name |-> "plc"]]

\* handleWebSocketMessage that applies the first entry only, whatever the type.
handleWebSocketMessageFirstOnly(prev, data) ==
    IF Len(data.data) = 0 THEN prev
    ELSE [i \in DOMAIN prev |->
            IF prev[i].id = data.data[1].id
            THEN overwrite(prev[i], data.data[1]) ELSE prev[i]]

\* The collection handleWebSocketMessage passes to setServers.
handleWebSocketMessage(prev, data) ==
    IF data.type = "initial_status"
    THEN [i \in DOMAIN prev |->
            LET k == find(data.data, prev[i].id)
            IN IF k # 0 THEN overwrite(prev[i], data.data[k]) ELSE prev[i]]
    ELSE IF Len(data.data) = 0 THEN prev
    ELSE [i \in DOMAIN prev |->
            IF prev[i].id = data.data[1].id
            THEN overwrite(prev[i], data.data[1]) ELSE prev[i]]

\* ------------------------------------------------------------ initial state
\* new WebSocketManager() in a browser: the constructor has called connect().
InitWith(n) ==
    /\ ws = 1
    /\ rs = [s \in 1..n |-> IF s = 1 THEN "CONNECTING" ELSE "NONE"]
    /\ reconnectAttempts = 0
    /\ isReconnecting = FALSE
    /\ autoReconnect = TRUE
    /\ pingInterval = NoPing
    /\ retryTimeout = NullTimer
    /\ leaked = EmptyBag
    /\ sincePong = PongDeadline + TimeStep
    /\ callbacks = <<>>
    /\ errorCallbacks = <<>>
    /\ stateCallbacks = <<>>
    /\ lastState = "CONNECTING"
    /\ out = <<>>
    /\ closeRun = 0
    /\ hb = NoHb
    /\ failures = 0

\* No ServersPage is mounted.
NotApplied == [on |-> FALSE, data |-> <<>>, prev |-> <<>>, threw |-> FALSE]
NoPage == servers = <<>> /\ applied = NotApplied

\* No delay is being computed.
NoPolicy == attempts = <<>> /\ delays = <<>>

\* No component uses the hook.
NoHook == hook = [unsubscribeRef |-> 0, mountedRef |-> FALSE, connectionState |-> "CLOSED",
                  reconnectTimer |-> FALSE, closures |-> 0]

\* No manager of lib/websocket.ts exists.
NoLib == lib = [ws |-> NoSock, rs |-> <<>>, reconnectAttempts |-> 0,
                callbacks |-> <<>>, pingInterval |-> FALSE, timers |-> 0,
                sent |-> FALSE, delivered |-> {}, closed |-> FALSE]

Init == InitWith(MaxSock) /\ NoPage /\ NoPolicy /\ NoHook /\ NoLib

\* ------------------------------------------------------------ actions

\* A timer callback that calls connect() needs a socket to construct.
CanRun(m, kind) == kind = "connect" /\ ~connectReturns(m) => FreeSock(m) # {}

\* The open event of socket s.
SockOpen(s) ==
    /\ rs[s] = "CONNECTING"
    /\ Commit(handleOpen([M EXCEPT !.rs[s] = "OPEN"]))
    /\ closeRun' = 0 /\ hb' = NoHb /\ failures' = 0

\* A message event of socket s.
SockMessage(s, data) ==
    /\ rs[s] = "OPEN"
    /\ Commit(Caught(handleMessage(M, data)))
    /\ closeRun' = 0 /\ hb' = hb /\ failures' = failures

\* The connection of socket s fails: one task sets readyState to CLOSED, fires
\* error and then close with code 1006.
SockFail(s) ==
    /\ rs[s] \in {"CONNECTING", "OPEN", "CLOSING"}
    /\ LET m0 == [M EXCEPT !.rs[s] = "CLOSED"]
           m1 == Caught(handleError(m0, [code |-> 1006, reason |-> "Unknown error"]))
       IN Commit(handleClose(m1, 1006))
    /\ closeRun' = 0 /\ hb' = hb
    /\ failures' = IF rs[s] = "CONNECTING" /\ autoReconnect
                   THEN MinOf(failures + 1, maxReconnectAttempts + 1) ELSE failures

\* The connection of socket s closes without an error event.
SockClosed(s, code) ==
    /\ rs[s] \in {"OPEN", "CLOSING"}
    /\ Commit(handleClose([M EXCEPT !.rs[s] = "CLOSED"], code))
    /\ closeRun' = 0 /\ hb' = hb /\ failures' = failures

\* connect() called by the application.
Connect ==
    /\ connectReturns(M) \/ FreeSock(M) # {}
    /\ Commit(connect(M))
    /\ closeRun' = 0 /\ hb' = hb /\ failures' = failures

\* close() called by the application.
Close ==
    /\ Commit(close(M))
    /\ closeRun' = MinOf(closeRun + 1, 2) /\ hb' = NoHb /\ failures' = 0

\* TimeStep units pass.  The interval fires exactly when it is due.  A timeout
\* fires somewhere in the last step of its delay: from rem = 1 on it may fire,
\* and at rem = 0 it fires before more time passes.
Tick ==
    /\ pingInterval.on => pingInterval.rem > 0
    /\ retryTimeout.st = "pending" => retryTimeout.rem > 0
    /\ \A t \in BagToSet(leaked) : t.rem > 0
    /\ sincePong' = IF pingInterval.on
                    THEN MinOf(sincePong + TimeStep, PongDeadline + TimeStep)
                    ELSE sincePong
    /\ pingInterval' = IF pingInterval.on
                       THEN [pingInterval EXCEPT !.rem = @ - TimeStep] ELSE pingInterval
    /\ retryTimeout' = IF retryTimeout.st = "pending"
                       THEN [retryTimeout EXCEPT !.rem = @ - 1] ELSE retryTimeout
    /\ leaked' = [t \in {[x EXCEPT !.rem = @ - 1] : x \in BagToSet(leaked)}
                    |-> leaked[[t EXCEPT !.rem = @ + 1]]]
    /\ out' = <<>>
    /\ closeRun' = 0 /\ hb' = hb /\ failures' = failures
    /\ UNCHANGED <<ws, rs, reconnectAttempts, isReconnecting, autoReconnect,
                   callbacks, errorCallbacks, stateCallbacks, lastState>>
    /\ UNCHANGED pageVars
    /\ UNCHANGED policyVars
    /\ UNCHANGED hookVars
    /\ UNCHANGED libVars

\* The interval callback is about to find the held socket OPEN and the last
\* pong older than the deadline.
PongTimeout ==
    /\ pingInterval.on /\ pingInterval.rem = 0
    /\ ws # NoSock /\ rs[ws] = "OPEN"
    /\ sincePong > PongDeadline

\* The heartbeat interval fires.
PingFire ==
    /\ pingInterval.on /\ pingInterval.rem = 0
    /\ LET m1 == pingTick(M)
       IN Commit(IF m1.pingInterval.on
                 THEN [m1 EXCEPT !.pingInterval.rem = PingPeriod] ELSE m1)
    /\ closeRun' = 0
    /\ hb' = IF PongTimeout
             THEN [on |-> TRUE, sock |-> ws, expect |-> reconnectAttempts + 1,
                   auto |-> autoReconnect]
             ELSE hb
    /\ failures' = failures

\* The timeout this.retryTimeout names fires.
RetryFire ==
    /\ retryTimeout.st = "pending" /\ retryTimeout.rem <= 1
    /\ LET m0 == [M EXCEPT !.retryTimeout.st = "fired"]
       IN /\ CanRun(m0, retryTimeout.kind)
          /\ Commit(timerCallback(m0, retryTimeout.kind))
    /\ closeRun' = 0 /\ hb' = hb /\ failures' = failures

\* A timeout that no field names fires.
LeakedFire(t) ==
    /\ t \in BagToSet(leaked) /\ t.rem <= 1
    /\ LET m0 == [M EXCEPT !.leaked = @ (-) SetToBag({t})]
       IN /\ CanRun(m0, t.kind)
          /\ Commit(timerCallback(m0, t.kind))
    /\ closeRun' = 0 /\ hb' = hb /\ failures' = failures

\* The result of the function a subscribe operation returns (the result of
\* Set.delete), for a caller that looks at it.
returned(m, had, l) ==
    Emit(m, "return", IF had THEN "true" ELSE "false", 0, {l})

Subscribe(l) ==
    /\ Commit([M EXCEPT !.callbacks = With(@, l)])
    /\ closeRun' = 0 /\ hb' = hb /\ failures' = failures

Unsubscribe(l) ==
    /\ Commit([M EXCEPT !.callbacks = Without(@, l)])
    /\ closeRun' = 0 /\ hb' = hb /\ failures' = failures

OnError(l) ==
    /\ Commit([M EXCEPT !.errorCallbacks = With(@, l)])
    /\ closeRun' = 0 /\ hb' = hb /\ failures' = failures

OffError(l) ==
    /\ Commit([M EXCEPT !.errorCallbacks = Without(@, l)])
    /\ closeRun' = 0 /\ hb' = hb /\ failures' = failures

OnStateChange(l) ==
    /\ Commit([M EXCEPT !.stateCallbacks = With(@, l)])
    /\ closeRun' = 0 /\ hb' = hb /\ failures' = failures

OffStateChange(l) ==
    /\ Commit([M EXCEPT !.stateCallbacks = Without(@, l)])
    /\ closeRun' = 0 /\ hb' = hb /\ failures' = failures

\* The same three functions, called by code that keeps the result.
UnsubscribeResult(l) ==
    /\ Commit(returned([M EXCEPT !.callbacks = Without(@, l)],
                       Has(callbacks, l), l))
    /\ closeRun' = 0 /\ hb' = hb /\ failures' = failures

OffErrorResult(l) ==
    /\ Commit(returned([M EXCEPT !.errorCallbacks = Without(@, l)],
                       Has(errorCallbacks, l), l))
    /\ closeRun' = 0 /\ hb' = hb /\ failures' = failures

OffStateChangeResult(l) ==
    /\ Commit(returned([M EXCEPT !.stateCallbacks = Without(@, l)],
                       Has(stateCallbacks, l), l))
    /\ closeRun' = 0 /\ hb' = hb /\ failures' = failures

Next ==
    \/ \E s \in DOMAIN rs : SockOpen(s)
    \/ \E s \in DOMAIN rs, d \in Frames : SockMessage(s, d)
    \/ \E s \in DOMAIN rs : SockFail(s)
    \/ \E s \in DOMAIN rs, c \in CloseCodes : SockClosed(s, c)
    \/ Connect
    \/ Close
    \/ Tick
    \/ PingFire
    \/ RetryFire
    \/ \E t \in BagToSet(leaked) : LeakedFire(t)
    \/ \E l \in DataListeners : Subscribe(l) \/ Unsubscribe(l)
    \/ \E l \in ErrorListeners : OnError(l) \/ OffError(l)
    \/ \E l \in StateListeners : OnStateChange(l) \/ OffStateChange(l)

Spec == Init /\ [][Next]_vars

\* The application calls connect() and no connection is ever established:
\* enough sockets for more than maxReconnectAttempts failures in a row.
InitExhaust == InitWith(maxReconnectAttempts + ExtraSock) /\ NoPage /\ NoPolicy /\ NoHook /\ NoLib

NextExhaust ==
    \/ \E s \in DOMAIN rs : SockFail(s)
    \/ Connect

SpecExhaust == InitExhaust /\ [][NextExhaust]_vars

\* The application registers and removes listeners, among them one that
\* raises, while one connection opens and receives frames.
NextFanout ==
    \/ \E s \in DOMAIN rs : SockOpen(s)
    \/ \E s \in DOMAIN rs, d \in FanFrames : SockMessage(s, d)
    \/ \E l \in FanListeners : Subscribe(l) \/ UnsubscribeResult(l)
    \/ \E l \in ErrorListeners : OnError(l) \/ OffErrorResult(l)
    \/ \E l \in FanListeners : OnStateChange(l) \/ OffStateChangeResult(l)
    \/ Close

SpecFanout == Init /\ [][NextFanout]_vars

\* A mounted ServersPage with any collection of servers is passed updates.
InitReconcile ==
    /\ InitWith(MaxSock)
    /\ servers \in Collections
    /\ applied = NotApplied
    /\ NoPolicy /\ NoHook /\ NoLib

\* The data listener of the page runs with update data.  When the updater
\* raises, setServers stores nothing.
Receive(data) ==
    /\ servers' = IF throws(servers, data) THEN servers
                  ELSE handleWebSocketMessage(servers, data)
    /\ applied' = [on |-> TRUE, data |-> data, prev |-> servers,
                   threw |-> throws(servers, data)]
    /\ UNCHANGED <<mgrVars, rs, lastState, out, closeRun, hb, failures>>
    /\ UNCHANGED policyVars
    /\ UNCHANGED hookVars
    /\ UNCHANGED libVars

NextReconcile == \E data \in Updates : Receive(data)

SpecReconcile == InitReconcile /\ [][NextReconcile]_vars

\* attemptReconnect computes the delay of two attempts, each for a value that
\* reconnectAttempts can have after the increment behind the guard
\* reconnectAttempts < maxReconnectAttempts.
InitDelay ==
    /\ InitWith(MaxSock) /\ NoPage /\ NoHook /\ NoLib
    /\ attempts \in (1..maxReconnectAttempts) \X (1..maxReconnectAttempts)
    /\ delays = <<>>

ComputeDelay ==
    /\ delays = <<>>
    /\ delays' = <<delayScaled(attempts[1]), delayScaled(attempts[2])>>
    /\ UNCHANGED <<mgrVars, rs, lastState, out, closeRun, hb, failures, attempts>>
    /\ UNCHANGED pageVars
    /\ UNCHANGED hookVars
    /\ UNCHANGED libVars

NextDelay == ComputeDelay

SpecDelay == InitDelay /\ [][NextDelay]_vars

\* ------------------------------------------------------------ useWebSocket
\* One instance of the hook with its default options (autoConnect and
\* reconnectOnError true).  Its listeners are the members of this.callbacks;
\* every call of connect() creates a new function, numbered in hook.closures.

\* WebSocketState: what getState() of the manager can return to the hook.
WebSocketStates == {"CONNECTING", "OPEN", "CLOSING", "CLOSED", "UNKNOWN"}

\* setConnectionState(state) followed by the auto-reconnect effect, which runs
\* again when connectionState has changed: its cleanup clears the timer, and
\* the timer is set when the new state is CLOSED.
updateConnectionState(h, state) ==
    IF ~h.mountedRef \/ state = h.connectionState THEN h
    ELSE [h EXCEPT !.connectionState = state, !.reconnectTimer = (state = "CLOSED")]

\* connect() of the hook: the new hook state and the new this.callbacks.
hookConnect(h, cbs, state) ==
    IF ~h.mountedRef THEN <<h, cbs>>
    ELSE LET l == h.closures + 1
         IN <<updateConnectionState([h EXCEPT !.closures = l, !.unsubscribeRef = l], state),
              With(cbs, l)>>

\* disconnect() of the hook.
hookDisconnect(h, cbs, state) ==
    IF h.unsubscribeRef # 0
    THEN <<updateConnectionState([h EXCEPT !.unsubscribeRef = 0], state),
           Without(cbs, h.unsubscribeRef)>>
    ELSE <<h, cbs>>

HookStep(r) ==
    /\ hook' = r[1]
    /\ callbacks' = r[2]
    /\ UNCHANGED <<ws, rs, reconnectAttempts, isReconnecting, autoReconnect,
                   pingInterval, retryTimeout, leaked, sincePong, errorCallbacks,
                   stateCallbacks, lastState, out, closeRun, hb, failures>>
    /\ UNCHANGED pageVars
    /\ UNCHANGED policyVars
    /\ UNCHANGED libVars

\* The component has rendered for the first time; its effects have not run.
InitHook == InitWith(MaxSock) /\ NoPage /\ NoPolicy /\ NoHook /\ NoLib

\* The effects of the first render run: the auto-reconnect effect finds the
\* initial state CLOSED and sets its timer, and the mount effect calls
\* connect().
HookMount(state) ==
    /\ ~hook.mountedRef /\ hook.closures = 0
    /\ HookStep(hookConnect([hook EXCEPT !.mountedRef = TRUE, !.reconnectTimer = TRUE],
                            callbacks, state))

\* connect() called by the component.
HookConnect(state) ==
    /\ hook.mountedRef /\ hook.closures < MaxClosures
    /\ HookStep(hookConnect(hook, callbacks, state))

\* The 3-second timer of the auto-reconnect effect fires.
HookTimerFire(state) ==
    /\ hook.reconnectTimer /\ hook.closures < MaxClosures
    /\ HookStep(hookConnect([hook EXCEPT !.reconnectTimer = FALSE], callbacks, state))

\* The 1-second interval of the hook reads getState().
HookPoll(state) ==
    /\ hook.mountedRef
    /\ HookStep(<<updateConnectionState(hook, state), callbacks>>)

\* disconnect() called by the component.
HookDisconnect(state) ==
    /\ hook.mountedRef
    /\ HookStep(hookDisconnect(hook, callbacks, state))

\* The component unmounts: the cleanups of the effects run.
HookUnmount ==
    /\ hook.mountedRef
    /\ LET r == hookDisconnect([hook EXCEPT !.mountedRef = FALSE], callbacks, "CLOSED")
       IN HookStep(<<[r[1] EXCEPT !.reconnectTimer = FALSE, !.connectionState = "CLOSED"],
                     r[2]>>)

NextHook ==
    \/ \E state \in WebSocketStates : HookMount(state)
    \/ \E state \in WebSocketStates : HookConnect(state)
    \/ \E state \in WebSocketStates : HookTimerFire(state)
    \/ \E state \in WebSocketStates : HookPoll(state)
    \/ \E state \in WebSocketStates : HookDisconnect(state)
    \/ HookUnmount

SpecHook == InitHook /\ [][NextHook]_vars

\* ------------------------------------------------------------ lib/websocket.ts
\* The WebSocketManager of lib/websocket.ts: the held socket, the ready states
\* of the sockets it has constructed, its counter, its ping interval, the
\* listeners in insertion order, the pending timeouts of attemptReconnect (no
\* field names them), whether the last task sent "ping" and the listeners it
\* called.  closed is history: close() has been called.

libConnect(m) ==
    LET s == Min({x \in DOMAIN m.rs : m.rs[x] = "NONE"})
    IN [m EXCEPT !.ws = s, !.rs[s] = "CONNECTING"]

libAttemptReconnect(m) ==
    IF m.reconnectAttempts < libMaxReconnectAttempts
    THEN [m EXCEPT !.reconnectAttempts = @ + 1, !.timers = @ + 1]
    ELSE m

libStartPing(m) == [m EXCEPT !.pingInterval = TRUE]

libStopPing(m) == [m EXCEPT !.pingInterval = FALSE]

\* ws.onopen
libOnOpen(m) == libStartPing([m EXCEPT !.reconnectAttempts = 0])

\* A tick of a ping interval: "ping" goes to the held socket when it is OPEN.
libPingTick(m) ==
    [m EXCEPT !.sent = m.ws # NoSock /\ m.rs[m.ws] = "OPEN"]

\* notifyCallbacks has no try/catch: the first listener that raises ends the
\* loop, and the catch of onmessage logs the exception.
libNotifyCallbacks(m) == [m EXCEPT !.delivered = forEachUncaught(m.callbacks)]

\* ws.onmessage
libOnMessage(m, frame) ==
    IF frame = "json" THEN libNotifyCallbacks(m) ELSE m

\* ws.onclose
libOnClose(m) == libAttemptReconnect(libStopPing(m))

libClose(m) ==
    LET m1 == libStopPing(m)
    IN IF m1.ws # NoSock
       THEN [m1 EXCEPT !.rs[m1.ws] = IF @ \in {"CONNECTING", "OPEN"} THEN "CLOSING" ELSE @,
                       !.ws = NoSock]
       ELSE m1

\* The task ends.  A CLOSED socket the manager does not hold is forgotten.
LibStep(m) ==
    /\ lib' = [m EXCEPT !.rs = [s \in DOMAIN m.rs |->
                    IF m.rs[s] = "CLOSED" /\ s # m.ws THEN "NONE" ELSE m.rs[s]]]
    /\ UNCHANGED <<mgrVars, rs, lastState, out, closeRun, hb, failures>>
    /\ UNCHANGED pageVars
    /\ UNCHANGED policyVars
    /\ UNCHANGED hookVars

\* new WebSocketManager() in a browser: the constructor has called connect().
InitLib ==
    /\ InitWith(MaxSock) /\ NoPage /\ NoPolicy /\ NoHook
    /\ lib = [ws |-> 1,
              rs |-> [s \in 1..MaxLibSock |-> IF s = 1 THEN "CONNECTING" ELSE "NONE"],
              callbacks |-> <<>>, reconnectAttempts |-> 0, pingInterval |-> FALSE,
              timers |-> 0, sent |-> FALSE, delivered |-> {}, closed |-> FALSE]

\* The manager at the start of a task: nothing sent, nothing delivered yet.
LibTask == [lib EXCEPT !.sent = FALSE, !.delivered = {}]

\* The open event of socket s.
LibOpen(s) ==
    /\ lib.rs[s] = "CONNECTING"
    /\ LibStep(libOnOpen([LibTask EXCEPT !.rs[s] = "OPEN"]))

\* The close event of socket s (after an error event, which only logs, or
\* after the closing handshake).
LibClosed(s) ==
    /\ lib.rs[s] \in {"CONNECTING", "OPEN", "CLOSING"}
    /\ LibStep(libOnClose([LibTask EXCEPT !.rs[s] = "CLOSED"]))

\* A timeout of attemptReconnect fires.
LibTimerFire ==
    /\ lib.timers > 0
    /\ \E x \in DOMAIN lib.rs : lib.rs[x] = "NONE"
    /\ LibStep(libConnect([LibTask EXCEPT !.timers = @ - 1]))

\* close() called by the application.
LibClose ==
    /\ lib.rs # <<>>
    /\ LibStep([libClose(LibTask) EXCEPT !.closed = TRUE])

\* The ping interval ticks.
LibPing ==
    /\ lib.pingInterval
    /\ LibStep(libPingTick(LibTask))

\* A frame arrives on socket s.
LibMessage(s, frame) ==
    /\ lib.rs[s] = "OPEN"
    /\ LibStep(libOnMessage(LibTask, frame))

\* subscribe(l), and the function it returned.
LibSubscribe(l) ==
    /\ l \in LibListeners
    /\ LibStep([LibTask EXCEPT !.callbacks = With(@, l)])

LibUnsubscribe(l) ==
    /\ Has(lib.callbacks, l)
    /\ LibStep([LibTask EXCEPT !.callbacks = Without(@, l)])

NextLib ==
    \/ \E s \in DOMAIN lib.rs : LibOpen(s)
    \/ \E s \in DOMAIN lib.rs : LibClosed(s)
    \/ LibTimerFire
    \/ LibClose
    \/ LibPing
    \/ \E s \in DOMAIN lib.rs, frame \in Frames : LibMessage(s, frame)
    \/ \E l \in LibListeners : LibSubscribe(l)
    \/ \E l \in LibListeners : LibUnsubscribe(l)

SpecLib == InitLib /\ [][NextLib]_vars

\* ------------------------------------------------------------ properties

\* Sockets whose handlers can still run on the manager.
Alive == {s \in DOMAIN rs : rs[s] \in {"CONNECTING", "OPEN", "CLOSING"}}

\* A socket is constructed in this step.
Created == \E s \in DOMAIN rs : rs[s] = "NONE" /\ rs'[s] = "CONNECTING"

\* The pending timeouts whose callback is connect().
ConnectTimers ==
    (IF retryTimeout.st = "pending" /\ retryTimeout.kind = "connect" THEN 1 ELSE 0)
    + BagCardinality([t \in {x \in BagToSet(leaked) : x.kind = "connect"} |-> leaked[t]])

\* reconnect() and close() close the socket and drop the reference: a
\* discarded socket is one that is closing and that the manager does not hold.
Discarded(s) == rs[s] = "CLOSING" /\ s # ws

\* C1: when the reconnect timeout set by attemptReconnect fires while automatic
\* reconnection is enabled, a new socket is constructed and the state becomes
\* CONNECTING.
C1_RetryCreatesBinding ==
    [][(RetryFire /\ retryTimeout.kind = "connect" /\ autoReconnect)
         => (Created /\ ws' # NoSock /\ rs'[ws'] = "CONNECTING"
             /\ lastState' = "CONNECTING")]_vars

\* C2: in every reachable state at most one socket can still act on the
\* manager: a new socket is constructed only once the previous one is gone.
C2_OneBinding == Cardinality(Alive) <= 1

\* C3: an event of a discarded socket changes none of reconnectAttempts,
\* isReconnecting, autoReconnect, the heartbeat interval and the retry timer,
\* and reaches no listener.
C3_StaleEventsIgnored ==
    [][(\E s \in DOMAIN rs :
            Discarded(s) /\ (SockFail(s) \/ \E c \in CloseCodes : SockClosed(s, c)))
         => (/\ UNCHANGED <<reconnectAttempts, isReconnecting, autoReconnect,
                            pingInterval, retryTimeout>>
             /\ \A i \in 1..Len(out') : out'[i].to = {})]_vars

C5_CloseCancelsAll ==
    [][Close => (/\ ws' = NoSock
                 /\ ws # NoSock => rs'[ws] \notin {"CONNECTING", "OPEN"}
                 /\ ~pingInterval'.on
                 /\ retryTimeout'.st # "pending"
                 /\ leaked' = EmptyBag
                 /\ getState(M)' = "CLOSED")]_vars

\* C6: of two close() calls in a row, getState() is CLOSED after each, and
\* the second emits nothing and changes no field of the manager.
C6_CloseTwice ==
    [][closeRun' = 2
         => (/\ getState(M) = "CLOSED"
             /\ getState(M)' = "CLOSED"
             /\ out' = <<>>
             /\ UNCHANGED <<mgrVars, rs, lastState>>)]_vars

C6_Witness == closeRun = 2

\* The ErrorEvent of reconnect exhaustion is passed to the error listeners.
ExhaustionEmitted ==
    \E i \in 1..Len(out) :
        out[i].ch = "error" /\ out[i].v = "Max reconnection attempts reached"

ErrorStateEmitted ==
    \E i \in 1..Len(out) : out[i].ch = "state" /\ out[i].v = "ERROR"

C9_ConnectIdempotent ==
    [][(Connect /\ ws # NoSock /\ rs[ws] \in {"CONNECTING", "OPEN"})
         => (~Created /\ UNCHANGED <<mgrVars, rs, lastState>>)]_vars

\* After a heartbeat timeout: the dead socket is closed and no longer held,
\* reconnectAttempts is one more than before the timeout, and at most one
\* reconnect timeout is pending.
OneForcedReconnect ==
    /\ ws = NoSock
    /\ rs[hb.sock] \notin {"CONNECTING", "OPEN"}
    /\ reconnectAttempts = hb.expect
    /\ ConnectTimers <= 1

ForcedReconnectWhileEnabled == (hb.on /\ hb.auto) => OneForcedReconnect

\* An error of the held socket occurs in this step: its connection fails, a
\* frame that is not JSON arrives on it, or the heartbeat finds the pong
\* deadline missed.
ErrorOccurs ==
    \/ \E s \in DOMAIN rs : s = ws /\ SockFail(s)
    \/ \E s \in DOMAIN rs : s = ws /\ SockMessage(s, "garbage")
    \/ PingFire /\ PongTimeout

\* Listener l has been passed an ErrorEvent by the last task.
ErrorDeliveredTo(l) ==
    \E i \in 1..Len(out) : out[i].ch = "error" /\ l \in out[i].to

\* C11: whenever an error occurs (transport error, malformed message,
\* liveness timeout), every subscribed error listener is passed an
\* ErrorEvent; stated for the registries in which no listener raises.
C11_ErrorsSurfaced ==
    [][(ErrorOccurs /\ \A i \in 1..Len(errorCallbacks) : errorCallbacks[i] \notin Throwing)
         => \A i \in 1..Len(errorCallbacks) : ErrorDeliveredTo(errorCallbacks[i])']_vars

\* A frame that is not JSON arrives on the held socket while the manager has
\* reported OPEN.
MalformedWhileOpen ==
    /\ ws # NoSock /\ lastState = "OPEN"
    /\ SockMessage(ws, "garbage")

\* The malformed frame emits the ErrorEvent 1007, the socket stays held and
\* open, no reconnect timeout is added and reconnectAttempts is unchanged.
MalformedKeepsSocket ==
    /\ \E i \in 1..Len(out') : out'[i].ch = "error" /\ out'[i].code = 1007
    /\ ws' = ws /\ rs'[ws] = "OPEN"
    /\ getState(M)' = "OPEN"
    /\ ConnectTimers' <= ConnectTimers
    /\ reconnectAttempts' = reconnectAttempts

\* C12: a malformed frame while OPEN emits the ErrorEvent 1007 and leaves the
\* connection OPEN: the socket stays held and open, the reported state stays
\* OPEN, no reconnect timeout is added and reconnectAttempts is unchanged.
C12_MalformedKeepsOpen ==
    [][MalformedWhileOpen => (MalformedKeepsSocket /\ lastState' = "OPEN")]_vars

\* The part of C12 that does not concern the reported state; it holds.
MalformedKeepsSocketOpen == [][MalformedWhileOpen => MalformedKeepsSocket]_vars

\* The listeners of a collection.
Members(cbs) == {cbs[i] : i \in 1..Len(cbs)}

\* C13: every data event is passed to every registered data listener and
\* every state change to every registered state listener, whether or not one
\* of them raises, and the step removes no listener.
C13_ThrowingListenerIsolated ==
    [][\A i \in 1..Len(out') :
          /\ out'[i].ch = "data"
                => (out'[i].to = Members(callbacks) /\ callbacks' = callbacks)
          /\ out'[i].ch = "state"
                => (out'[i].to = Members(stateCallbacks)
                    /\ stateCallbacks' = stateCallbacks)]_vars

\* A data event has reached the listeners on both sides of the one that
\* raises, with state listeners registered the same way.
C13_Witness ==
    /\ callbacks = <<1, 2, 3>>
    /\ stateCallbacks = <<1, 2, 3>>
    /\ \E i \in 1..Len(out) : out[i].ch = "data" /\ out[i].to = {1, 2, 3}

\* C14: every ErrorEvent is passed to every registered error listener, whether
\* or not one of them raises, and the step removes no listener.
C14_ErrorFanoutIsolated ==
    [][\A i \in 1..Len(out') :
          out'[i].ch = "error"
             => (out'[i].to = Members(errorCallbacks)
                 /\ errorCallbacks' = errorCallbacks)]_vars

\* The function returned for listener l of a collection is called in this
\* step (any of the three collections).
TokenCalled(l) == UnsubscribeResult(l) \/ OffErrorResult(l) \/ OffStateChangeResult(l)

\* What is left of a collection when l, and nothing else, is removed.
Less(cbs, l) == Members(cbs) \ {l}

\* Everything of the manager but the three collections.
nonListenerVars ==
    <<ws, rs, reconnectAttempts, isReconnecting, autoReconnect, pingInterval,
      retryTimeout, leaked, sincePong, lastState>>

nonListenerVarsButPong ==
    <<ws, rs, reconnectAttempts, isReconnecting, autoReconnect, pingInterval,
      retryTimeout, leaked, lastState>>

\* C15 (as stated): a token removes its listener and nothing else, and a
\* token called after close() changes no collection.
C15_TokenNoOpAfterClose ==
    [][\A l \in FanListeners :
          (TokenCalled(l) /\ ~autoReconnect)
             => UNCHANGED <<callbacks, errorCallbacks, stateCallbacks>>]_vars

\* C15 (amended): the token of a collection removes listener l from that
\* collection if it is there, changes no other collection and nothing else of
\* the manager, before and after close(); when l is not in the collection
\* (the token was called before) it changes nothing.
C15_TokenRemovesExactly ==
    [][\A l \in FanListeners :
          /\ UnsubscribeResult(l)
                => (/\ Members(callbacks') = Less(callbacks, l)
                    /\ UNCHANGED <<errorCallbacks, stateCallbacks, nonListenerVars>>)
          /\ OffErrorResult(l)
                => (/\ Members(errorCallbacks') = Less(errorCallbacks, l)
                    /\ UNCHANGED <<callbacks, stateCallbacks, nonListenerVars>>)
          /\ OffStateChangeResult(l)
                => (/\ Members(stateCallbacks') = Less(stateCallbacks, l)
                    /\ UNCHANGED <<callbacks, errorCallbacks, nonListenerVars>>)
          /\ (TokenCalled(l) /\ \E i \in 1..Len(out') : out'[i].v = "false")
                => UNCHANGED mgrVars]_vars

\* After close(), the token of data listener 2 has just removed it, and the
\* data listeners 1 and 3 and listeners of the other collections are still
\* registered.
C15_Witness ==
    /\ ~autoReconnect
    /\ out = <<[ch |-> "return", v |-> "true", code |-> 0, to |-> {2}]>>
    /\ Members(callbacks) = {1, 3}
    /\ Has(errorCallbacks, 2) /\ Has(stateCallbacks, 2)

\* C16: a frame equal to "pong" sets the time of the last pong and does
\* nothing else: no data listener and no error listener is called, no state is
\* reported, nothing is sent and no other field changes.
C16_PongIntercepted ==
    [][\A s \in DOMAIN rs :
          SockMessage(s, "pong")
             => (/\ out' = <<>>
                 /\ pingInterval.on => sincePong' = 0
                 /\ UNCHANGED <<nonListenerVarsButPong, callbacks, errorCallbacks,
                                stateCallbacks>>)]_vars

\* Time has passed since the socket opened and the last pong is recent, with a
\* data listener and an error listener registered.
C16_Witness ==
    /\ pingInterval.on /\ pingInterval.rem < PingPeriod
    /\ sincePong = 0
    /\ Has(callbacks, 1) /\ Has(errorCallbacks, 1)

\* The data events of the last task, in order.
DataEvents(o) == SelectSeq(o, LAMBDA e : e.ch = "data")

\* C17: the task of a payload frame passes that frame, once, to every
\* registered data listener, and no other task passes data to a listener; so
\* each listener receives the frames that arrive while it is registered once
\* each and in arrival order.
C17_ForwardedOnceInOrder ==
    [][/\ \A s \in DOMAIN rs, d \in Payloads :
             SockMessage(s, d)
                => DataEvents(out') = <<[ch |-> "data", v |-> d, code |-> 0,
                                         to |-> Members(callbacks)]>>
       /\ DataEvents(out') # <<>>
             => \E s \in DOMAIN rs, d \in Payloads : SockMessage(s, d)]_vars

\* The second kind of payload has just been passed to the data listeners, one
\* of which raises.
C17_Witness ==
    /\ DataEvents(out) = <<[ch |-> "data", v |-> "json2", code |-> 0, to |-> {1, 2}]>>
    /\ lastState = "OPEN"

\* The page has been passed an update that did not raise.
Applied == applied.on /\ ~applied.threw

\* C18: the collection that results from an update is a fixed point of that
\* update: applying the same update again yields the same collection.
C18_ReconcileIdempotent ==
    Applied => handleWebSocketMessage(servers, applied.data) = servers

\* An array of two entries has changed both servers of the collection.
C18_Witness ==
    /\ Applied /\ applied.data.isArray
    /\ Len(servers) = 2
    /\ \A i \in 1..2 : servers[i] # applied.prev[i]

\* The ids of a collection, in order.
Ids(c) == [i \in DOMAIN c |-> c[i].id]

\* C19: an update leaves the ids of the collection and their order as they
\* were, whether or not an entry of the payload matches.
C19_MembershipKept == applied.on => Ids(servers) = Ids(applied.prev)

\* An update for the unknown id 99 has been applied to the servers 1 and 2.
C19_Witness ==
    /\ Applied
    /\ Members(Ids(applied.prev)) = {1, 2}
    /\ \E k \in 1..Len(applied.data.data) : applied.data.data[k].id = UnknownId
    /\ servers = applied.prev

\* The entries of the payload for id.
EntriesFor(data, id) == {k \in 1..Len(data.data) : data.data[k].id = id}

\* C20: after an initial_status update, a server with an entry in the payload
\* has the status and last_started of an entry for its id and its other
\* fields as before, and a server without entry is as before.
C20_InitialStatusOverwrites ==
    (Applied /\ applied.data.type = "initial_status")
       => \A i \in DOMAIN servers :
             LET old == applied.prev[i]
                 es == EntriesFor(applied.data, old.id)
             IN IF es = {} THEN servers[i] = old
                ELSE /\ \E k \in es :
                          /\ servers[i].status = applied.data.data[k].status
                          /\ servers[i].last_started = applied.data.data[k].last_started
                     /\ servers[i].id = old.id /\ servers[i].name = old.name

\* An initial_status array has changed the second server and left the first,
\* for which it has no entry.
C20_Witness ==
    /\ Applied /\ applied.data.type = "initial_status" /\ applied.data.isArray
    /\ Len(servers) = 2
    /\ EntriesFor(applied.data, servers[1].id) = {}
    /\ EntriesFor(applied.data, servers[2].id) # {}
    /\ servers[2] # applied.prev[2]

\* Every server with an entry in the payload of the last update has the
\* status and last_started of an entry for its id, and every other server is
\* as before.
OverwrittenPerId ==
    \A i \in DOMAIN servers :
       LET old == applied.prev[i]
           es == EntriesFor(applied.data, old.id)
       IN IF es = {} THEN servers[i] = old
          ELSE \E k \in es : servers[i] = overwrite(old, applied.data.data[k])

\* C21: after a server_status update, every server whose id matches an entry
\* of the payload has that entry's status and last_started, also when the
\* payload is an array of several entries.
C21_IncrementalOverwritesAll ==
    (Applied /\ applied.data.type = "server_status") => OverwrittenPerId

\* The same for the payloads that name one server: a single record, or an
\* array whose entries all carry the id of the first; this one holds.
IncrementalOverwritesFirst ==
    (/\ Applied /\ applied.data.type = "server_status"
     /\ \A k \in 1..Len(applied.data.data) :
           applied.data.data[k].id = applied.data.data[1].id)
       => OverwrittenPerId

\* The values the last task passed to updateState, in order.
StateValues(o) ==
    LET es == SelectSeq(o, LAMBDA e : e.ch = "state")
    IN [i \in 1..Len(es) |-> es[i].v]

\* The state reported before a step followed by the states the step reports.
Trail == <<lastState>> \o StateValues(out')

\* The transitions of the reported state other than the one into ERROR.
Edges ==
    {<<"CLOSED", "CONNECTING">>, <<"CONNECTING", "OPEN">>,
     <<"CONNECTING", "RECONNECTING">>, <<"OPEN", "RECONNECTING">>,
     <<"OPEN", "CLOSED">>, <<"RECONNECTING", "CONNECTING">>}

\* C22: every change of the state reported to state-change listeners, within
\* a task and from one task to the next, follows one of Edges, or enters ERROR
\* in the task that emits the exhaustion ErrorEvent.
C22_OnlySpecEdges ==
    [][\A i \in 1..(Len(Trail) - 1) :
          \/ Trail[i + 1] = Trail[i]
          \/ <<Trail[i], Trail[i + 1]>> \in Edges
          \/ Trail[i + 1] = "ERROR" /\ ExhaustionEmitted']_vars

\* The held socket s, reported CONNECTING or OPEN, fails or closes with a code
\* other than 1000 while automatic reconnection is enabled, attempts remain
\* and no error listener raises.
TransportLoss(s) ==
    /\ s = ws /\ rs[s] \in {"CONNECTING", "OPEN"} /\ lastState = rs[s]
    /\ autoReconnect /\ reconnectAttempts < maxReconnectAttempts
    /\ \A i \in 1..Len(errorCallbacks) : errorCallbacks[i] \notin Throwing
    /\ SockFail(s) \/ SockClosed(s, 1005)

\* C23: a transport error or a close with a non-normal code in CONNECTING or
\* OPEN, with automatic reconnection enabled and attempts left, ends in the
\* state RECONNECTING with a reconnect timeout pending, also when the error
\* event is followed by the close event of the same socket.
C23_LossSchedulesReconnect ==
    [][\A s \in DOMAIN rs :
          TransportLoss(s) => (lastState' = "RECONNECTING" /\ ConnectTimers' >= 1)]_vars

\* The same for a close event that no error event precedes, on a manager that
\* is not reconnecting already; this one holds.
CloseSchedulesReconnect ==
    [][\A s \in DOMAIN rs :
          (TransportLoss(s) /\ ~isReconnecting /\ SockClosed(s, 1005) /\ ~SockFail(s))
             => (lastState' = "RECONNECTING" /\ ConnectTimers' >= 1)]_vars

ResetOnOpen ==
    [][\A s \in DOMAIN rs :
          /\ SockOpen(s) => (reconnectAttempts' = 0 /\ ~isReconnecting')
          /\ (SockFail(s) /\ reconnectAttempts = 0 /\ autoReconnect /\ ~isReconnecting)
                => reconnectAttempts' = 1]_vars

\* The state v is reported in this step.
Reports(v) == \E i \in 1..Len(out') : out'[i].ch = "state" /\ out'[i].v = v

\* A listener is registered or removed in this step.
RegistryCall ==
    \/ \E l \in DataListeners : Subscribe(l) \/ Unsubscribe(l)
    \/ \E l \in ErrorListeners : OnError(l) \/ OffError(l)
    \/ \E l \in StateListeners : OnStateChange(l) \/ OffStateChange(l)

\* The heartbeat interval fires and finds the held socket open and the last
\* pong within the deadline.
AliveTick == PingFire /\ ws # NoSock /\ rs[ws] = "OPEN" /\ ~PongTimeout

\* C25: reconnectAttempts changes only to 0 in the task of an open event that
\* reports OPEN, or by 1 in a task that reports RECONNECTING; close(), a
\* message, a heartbeat tick that finds the connection alive and the
\* registry operations leave it; it never exceeds maxReconnectAttempts.
C25_CountChangesOnlyOnOpenOrRetry ==
    [][/\ reconnectAttempts' # reconnectAttempts
            => \/ /\ reconnectAttempts' = 0
                  /\ \E s \in DOMAIN rs : SockOpen(s)
                  /\ Reports("OPEN")
               \/ /\ reconnectAttempts' = reconnectAttempts + 1
                  /\ Reports("RECONNECTING")
       /\ reconnectAttempts' # reconnectAttempts
            => ~(\/ Close
                 \/ \E s \in DOMAIN rs, d \in Frames : SockMessage(s, d)
                 \/ AliveTick
                 \/ RegistryCall)
       /\ reconnectAttempts' <= maxReconnectAttempts]_vars

\* close() has just been called on a manager that was waiting to reconnect:
\* the count of the attempt is still there.
C25_Witness ==
    /\ closeRun = 1 /\ reconnectAttempts = 1
    /\ lastState = "RECONNECTING"

\* What the last task passed to send().
Sent(o) == SelectSeq(o, LAMBDA e : e.ch = "send")

\* The effects of an open event of socket s: the count is 0, the manager is
\* not reconnecting, one heartbeat interval runs with a full period ahead, one
\* request for the initial status has been sent on s and OPEN is reported.
Opened(s) ==
    /\ reconnectAttempts' = 0
    /\ ~isReconnecting'
    /\ pingInterval' = [on |-> TRUE, rem |-> PingPeriod]
    /\ Sent(out') = <<[ch |-> "send", v |-> "get_initial_status", code |-> 0,
                       to |-> {s}]>>
    /\ Reports("OPEN")

OpenOfHeldSocket ==
    [][\A s \in DOMAIN rs : (SockOpen(s) /\ s = ws) => Opened(s)]_vars

\* C27: while the heartbeat interval is pending the manager holds a socket
\* that is OPEN.
C27_HeartbeatOnlyWhileOpen == pingInterval.on => getState(M) = "OPEN"

\* A reachable state: the heartbeat has found the pong deadline missed,
\* reconnect() has dropped the socket, and the interval is still pending while
\* the manager waits to reconnect.
HeartbeatAfterTimeout ==
    /\ hb.on /\ pingInterval.on
    /\ ws = NoSock /\ lastState = "RECONNECTING"

\* The pending timeouts whose callback re-sends the initial-state request.
InitialTimers ==
    (IF retryTimeout.st = "pending" /\ retryTimeout.kind = "initial" THEN 1 ELSE 0)
    + BagCardinality([t \in {x \in BagToSet(leaked) : x.kind = "initial"} |-> leaked[t]])

\* A timeout of retryHandler fires in this step.
InitialFire ==
    \/ RetryFire /\ retryTimeout.kind = "initial"
    \/ \E t \in BagToSet(leaked) : t.kind = "initial" /\ LeakedFire(t)

\* The frame that is not JSON leaves one retry pending, due after RetryDelay.
RetryScheduled ==
    /\ retryTimeout' = [st |-> "pending", kind |-> "initial", rem |-> Steps(1000 * RetryDelay)]
    /\ InitialTimers' = 1

\* The retry sends the request once when the held socket is open, and nothing
\* otherwise; it reports nothing and schedules nothing.
RetrySent ==
    /\ out' = IF ws # NoSock /\ rs[ws] = "OPEN"
              THEN <<[ch |-> "send", v |-> "get_initial_status", code |-> 0, to |-> {ws}]>>
              ELSE <<>>
    /\ InitialTimers' = InitialTimers - 1
    /\ ConnectTimers' = ConnectTimers

\* C28: a frame that is not JSON leaves exactly one retry pending, due after
\* RetryDelay; when it fires it sends one get_initial_status request if the
\* held socket is OPEN and nothing otherwise; at most one retry is pending in
\* every state.
C28_SingleRetry ==
    [][/\ \A s \in DOMAIN rs : SockMessage(s, "garbage") => RetryScheduled
       /\ InitialFire => RetrySent
       /\ InitialTimers' <= 1]_vars

\* No registered error listener raises.
QuietErrorListeners == \A i \in 1..Len(errorCallbacks) : errorCallbacks[i] \notin Throwing

\* What holds of the retry: a frame that is not JSON, with no error listener
\* that raises, leaves this.retryTimeout naming a retry due after RetryDelay,
\* and a retry that fires sends the request once if the held socket is OPEN
\* and nothing otherwise.
RetryPerFrame ==
    [][/\ \A s \in DOMAIN rs :
             (SockMessage(s, "garbage") /\ QuietErrorListeners)
                => retryTimeout' = [st |-> "pending", kind |-> "initial",
                                    rem |-> Steps(1000 * RetryDelay)]
       /\ InitialFire
             => out' = IF ws # NoSock /\ rs[ws] = "OPEN"
                       THEN <<[ch |-> "send", v |-> "get_initial_status", code |-> 0,
                               to |-> {ws}]>>
                       ELSE <<>>]_vars

\* 1000 * 1.5^(n-1) in 1/Scale ms, by n - 1 multiplications with 3/2.
RECURSIVE Backoff(_)
Backoff(n) == IF n = 1 THEN BaseDelayMs * Scale ELSE (Backoff(n - 1) * 3) \div 2

\* C29: the delay of attempt n is min(1000 * 1.5^(n-1), 30000) for every n in
\* 1..maxReconnectAttempts; it never exceeds 30000 and the delay of a later
\* attempt is not shorter than that of an earlier one.
C29_DelayFormula ==
    delays # <<>>
       => /\ \A i \in 1..2 :
                /\ delays[i] = MinOf(Backoff(attempts[i]), MaxDelayMs * Scale)
                /\ delays[i] <= MaxDelayMs * Scale
                /\ delays[i] >= BaseDelayMs * Scale
          /\ attempts[1] <= attempts[2] => delays[1] <= delays[2]

\* The delays of the attempts 5 and 10 have been computed: 5062.5 ms, and the
\* upper limit in the place of 38443.36 ms.
C29_Witness ==
    /\ attempts = <<5, maxReconnectAttempts>>
    /\ delays = <<(10125 * Scale) \div 2, MaxDelayMs * Scale>>

\* C30: in every state getState() returns the state most recently passed to
\* the state-change listeners.
C30_GetStateIsReported == getState(M) = lastState

\* The steps after which the two agree: the task of an open event of the held
\* socket, and connect() when it constructs a socket; this one holds.
GetStateAfterOpenOrConnect ==
    [][(\/ \E s \in DOMAIN rs : s = ws /\ SockOpen(s)
        \/ Connect /\ Created) => getState(M)' = lastState']_vars

\* The manager as the error event of socket s leaves it (the close event of
\* the socket runs after it, in the same task).
AfterErrorEvent(s) ==
    handleError([M EXCEPT !.rs[s] = "CLOSED"], [code |-> 1006, reason |-> "Unknown error"])

\* The connection of the held socket s fails while an error listener that
\* raises is registered, automatic reconnection is enabled, attempts remain
\* and no reconnect is under way.
FailureWithRaisingListener(s) ==
    /\ s = ws /\ SockFail(s)
    /\ \E i \in 1..Len(errorCallbacks) : errorCallbacks[i] \in Throwing
    /\ autoReconnect /\ ~isReconnecting
    /\ reconnectAttempts < maxReconnectAttempts

CloseEventReconnects ==
    [][\A s \in DOMAIN rs :
          FailureWithRaisingListener(s)
             => (/\ StateValues(out') = <<"CLOSED", "RECONNECTING">>
                 /\ retryTimeout'.st = "pending" /\ retryTimeout'.kind = "connect")]_vars

\* C32: whatever is sent in a task ("ping" or get_initial_status) is sent on
\* the socket the manager holds, and that socket is OPEN.
C32_SendOnlyOnOpenHeld ==
    [][\A i \in 1..Len(out') :
          out'[i].ch = "send"
             => (/\ out'[i].v \in {"ping", "get_initial_status"}
                 /\ ws' # NoSock /\ out'[i].to = {ws'}
                 /\ rs'[ws'] = "OPEN")]_vars

\* The retry of the initial-state request has just been sent on the held
\* socket while a second socket is alive.
C32_Witness ==
    /\ out = <<[ch |-> "send", v |-> "get_initial_status", code |-> 0, to |-> {ws}]>>
    /\ \E s \in DOMAIN rs : s # ws /\ rs[s] \in {"CONNECTING", "OPEN", "CLOSING"}

\* The page has been passed a server_status update with an empty array.
EmptyIncremental ==
    /\ applied.on /\ applied.data.type = "server_status"
    /\ applied.data.isArray /\ Len(applied.data.data) = 0

\* C33: a server_status update whose data is an empty array leaves the
\* collection as it was and raises no error.
C33_EmptyIncrementalIsNoOp ==
    EmptyIncremental => (servers = applied.prev /\ ~applied.threw)

\* The same for an empty collection, and for the collection alone: nothing is
\* stored; this one holds.
EmptyIncrementalStoresNothing ==
    EmptyIncremental => (servers = applied.prev /\ (Len(applied.prev) = 0 => ~applied.threw))

\* C34: at most one listener of the hook instance is registered with the
\* manager in every state, and none is registered while the hook holds no
\* removal function (after disconnect()) or after the unmount.
C34_HookOneListener ==
    /\ Len(callbacks) <= 1
    /\ (hook.unsubscribeRef = 0 \/ ~hook.mountedRef) => callbacks = <<>>

\* What holds: the listener of the last connect() is registered exactly while
\* the hook holds its removal function.
HookLastListener ==
    \A l \in 1..MaxClosures : (hook.unsubscribeRef = l) => Has(callbacks, l)

\* A socket of the manager of lib/websocket.ts is constructed in this step.
LibCreated == \E s \in DOMAIN lib.rs : lib.rs[s] # "CONNECTING" /\ lib'.rs[s] = "CONNECTING"

\* C35: once close() has been called on the manager of lib/websocket.ts, no
\* step constructs a WebSocket and no step schedules a reconnect.
C35_LibNoSocketAfterClose ==
    [][lib.closed => (~LibCreated /\ lib'.timers <= lib.timers)]_vars

\* What holds of close(): it returns with no socket held, the held socket
\* closing and the ping interval stopped.
LibCloseReleases ==
    [][LibClose => (/\ lib'.ws = NoSock /\ ~lib'.pingInterval
                    /\ lib.ws # NoSock => lib'.rs[lib.ws] \notin {"CONNECTING", "OPEN"})]_vars

\* A frame that is not JSON arrives in this step.
MalformedFrame == \E s \in DOMAIN rs : SockMessage(s, "garbage")

\* The heartbeat gives the connection up in this step: reconnect() schedules
\* the reconnect, and nothing else in the task touches the timeouts.
HeartbeatReconnects == PingFire /\ Reports("RECONNECTING")

ReconnectKeepsInitialRetry ==
    [][(InitialTimers > 0 /\ HeartbeatReconnects) => InitialTimers' = InitialTimers]_vars

\* A reconnect is scheduled by the heartbeat while an initial-state retry is
\* pending.
ReconnectOverInitialRetry ==
    /\ hb # NoHb
    /\ InitialTimers > 0
    /\ ConnectTimers > 0

TypeOK ==
    /\ ws \in DOMAIN rs \cup {NoSock}
    /\ \A s \in DOMAIN rs : rs[s] \in ReadyStates
    /\ reconnectAttempts \in 0..maxReconnectAttempts
    /\ isReconnecting \in BOOLEAN
    /\ autoReconnect \in BOOLEAN
    /\ sincePong \in 0..(PongDeadline + TimeStep)

====
